---- MODULE Spec2Model ----
(***************************************************************************)
(* Email verifier API (express + dns + smtp-connection + lru-cache).       *)
(* The model follows src/server.js; the drafts kept beside it in           *)
(* src/unnamed/part_000 differ in a few places, selected by `build'.       *)
(*                                                                         *)
(* Strings are sequences of one-character strings.  JavaScript `undefined' *)
(* is the record Undefined.  Time is Date.now() in milliseconds.           *)
(***************************************************************************)
EXTENDS Integers, Sequences, FiniteSets, TLC

VARIABLES
  build,       \* which source file is deployed (fixed by Init)
  env,         \* the clients and the resolver of the scenario (fixed by Init):
               \* [clients, bodies, answers, instants]
  now,         \* Date.now()
  cache,       \* the LRU cache: entries [key, value, now], most recently used first
  storedAt,    \* (history) per key: Date.now() when its present entry was set, or -1
  pc,          \* per request: "idle" | "dns" | "probe" | "done"
  email,       \* per request: const email (normalized)
  skipSMTP,    \* per request: const skipSMTP (part_003; FALSE elsewhere)
  cacheKey,    \* per request: const cacheKey (part_003; email elsewhere)
  result,      \* per request: const result (the object being filled in)
  mxRecords,   \* per request: const mxRecords (sorted)
  sweep,       \* per request: the running verifyAllMX call [to, mx, port]
  connection,  \* per request: the running smtpVerify call [stage, resolved, sent, ...]
  lingering,   \* per request: the connection of its last finished smtpVerify call
  res,         \* per request: the response sent [status, body]
  path,        \* per request (history): how the response was produced
  lookups,     \* per request (history): dns.resolveMx calls made
  probes,      \* per request (history): smtpVerify calls made, in order
  calls        \* per request (history): verifyAllMX calls made, in order

vars == <<build, env, now, cache, storedAt, pc, email, skipSMTP, cacheKey, result, mxRecords, sweep, connection,
          lingering, res, path, lookups, probes, calls>>

perRequest == <<pc, email, skipSMTP, cacheKey, result, mxRecords, sweep, connection,
                lingering, res, path,
                lookups, probes, calls>>

-----------------------------------------------------------------------------
(* Bounds *)

\* Date.now() is observed at the start, an hour later, and up to this many
\* milliseconds after either.
MaxSlack == 1

\* Email strings tried against the format check have at most this many
\* characters.
MaxLen == 5

-----------------------------------------------------------------------------
(* Strings *)

Undefined == [undefined |-> TRUE]

Whitespace == {" "}

toLowerCase(s) ==
  [i \in 1..Len(s) |->
     CASE s[i] = "A" -> "a"
       [] s[i] = "B" -> "b"
       [] s[i] = "C" -> "c"
       [] OTHER -> s[i]]

RECURSIVE trimStart(_)
trimStart(s) ==
  IF s # <<>> /\ Head(s) \in Whitespace THEN trimStart(Tail(s)) ELSE s

RECURSIVE trimEnd(_)
trimEnd(s) ==
  IF s # <<>> /\ s[Len(s)] \in Whitespace
  THEN trimEnd(SubSeq(s, 1, Len(s) - 1))
  ELSE s

trim(s) == trimEnd(trimStart(s))

NormalizeEmailKeepCase(body) ==
  LET given == IF "email" \in DOMAIN body THEN body.email ELSE <<>>
  IN trim(given)

NormalizeEmailNoTrim(body) ==
  LET given == IF "email" \in DOMAIN body THEN body.email ELSE <<>>
  IN toLowerCase(given)

\* (req.body.email || '').toLowerCase().trim()
NormalizeEmail(body) ==
  LET given == IF "email" \in DOMAIN body THEN body.email ELSE <<>>
  IN trim(toLowerCase(given))

isValidFormatDotOptional(s) ==
  \E i \in 1..Len(s) :
     /\ s[i] = "@"
     /\ 1 < i /\ i < Len(s)
     /\ \A k \in (1..Len(s)) \ {i} : s[k] \notin Whitespace \cup {"@"}

\* /^[^\s@]+@[^\s@]+\.[^\s@]+$/.test(email)
isValidFormat(s) ==
  \E i, j \in 1..Len(s) :
     /\ s[i] = "@" /\ s[j] = "."
     /\ 1 < i /\ i + 1 < j /\ j < Len(s)
     /\ \A k \in (1..Len(s)) \ {i} : s[k] \notin Whitespace \cup {"@"}

\* email.split('@')[1]
RECURSIVE UpToAt(_)
UpToAt(s) ==
  IF s = <<>> \/ Head(s) = "@" THEN <<>> ELSE <<Head(s)>> \o UpToAt(Tail(s))

RECURSIVE AfterAt(_)
AfterAt(s) ==
  IF s = <<>> THEN <<>>
  ELSE IF Head(s) = "@" THEN Tail(s) ELSE AfterAt(Tail(s))

DomainOf(s) == UpToAt(AfterAt(s))

-----------------------------------------------------------------------------
(* MX resolution *)

DnsThrows == [error |-> "ENOTFOUND"]

\* What dns.resolveMx can deliver: an error, no record, or records in the
\* resolver's order.
DnsAnswers ==
  { DnsThrows,
    [records |-> <<>>],
    [records |-> <<[exchange |-> "mx1", priority |-> 10]>>],
    [records |-> <<[exchange |-> "mx2", priority |-> 20],
                   [exchange |-> "mx1", priority |-> 10]>>],
    [records |-> <<[exchange |-> "mx2", priority |-> 10],
                   [exchange |-> "mx1", priority |-> 10]>>] }

\* Array.prototype.sort((a, b) => a.priority - b.priority): a stable sort.
RECURSIVE InsertByPriority(_, _)
InsertByPriority(sorted, rec) ==
  IF sorted = <<>> THEN <<rec>>
  ELSE IF rec.priority < Head(sorted).priority
       THEN <<rec>> \o sorted
       ELSE <<Head(sorted)>> \o InsertByPriority(Tail(sorted), rec)

RECURSIVE SortByPriority(_)
SortByPriority(recs) ==
  IF recs = <<>> THEN <<>>
  ELSE InsertByPriority(SortByPriority(SubSeq(recs, 1, Len(recs) - 1)),
                        recs[Len(recs)])

getMXRecords(answer) ==
  IF "error" \in DOMAIN answer THEN <<>> ELSE SortByPriority(answer.records)

-----------------------------------------------------------------------------
(* The LRU cache (lru-cache ^6.0.0) *)

Builds == {"server", "part000a", "part000b", "part003"}

\* new LRU({ max: 10000, maxAge: 1000 * 60 * 60 }); the first draft of
\* part_000 names the option ttl.
cacheOptions(b) ==
  IF b = "part000a"
  THEN [max |-> 10000, ttl |-> 1000 * 60 * 60]
  ELSE [max |-> 10000, maxAge |-> 1000 * 60 * 60]

\* The constructor reads options.max and options.maxAge only.
LruMax(b) == cacheOptions(b).max
LruMaxAge(b) ==
  IF "maxAge" \in DOMAIN cacheOptions(b) THEN cacheOptions(b).maxAge ELSE 0

isStale(b, hit, t) == LruMaxAge(b) # 0 /\ t - hit.now > LruMaxAge(b)

IndexOf(c, key) ==
  IF \E i \in 1..Len(c) : c[i].key = key
  THEN CHOOSE i \in 1..Len(c) : c[i].key = key
  ELSE 0

Without(c, i) == SubSeq(c, 1, i - 1) \o SubSeq(c, i + 1, Len(c))

cacheHas(b, c, key, t) ==
  IndexOf(c, key) # 0 /\ ~isStale(b, c[IndexOf(c, key)], t)

\* get(key): a stale entry is deleted and undefined returned; a live one is
\* moved to the front (its age is not refreshed).
cacheGetValue(b, c, key, t) ==
  LET i == IndexOf(c, key)
  IN IF i = 0 \/ isStale(b, c[i], t) THEN Undefined ELSE c[i].value

cacheAfterGetUpdateAge(b, c, key, t) ==
  LET i == IndexOf(c, key)
  IN IF i = 0 THEN c
     ELSE IF isStale(b, c[i], t) THEN Without(c, i)
     ELSE <<[c[i] EXCEPT !.now = t]>> \o Without(c, i)

cacheAfterGet(b, c, key, t) ==
  LET i == IndexOf(c, key)
  IN IF i = 0 THEN c
     ELSE IF isStale(b, c[i], t) THEN Without(c, i)
     ELSE <<c[i]>> \o Without(c, i)

\* trim: entries are dropped from the tail while there are more than max.
RECURSIVE trimCache(_, _)
trimCache(b, c) ==
  IF Len(c) > LruMax(b) THEN trimCache(b, SubSeq(c, 1, Len(c) - 1)) ELSE c

\* set(key, value): the entry is (re)written, stamped with the current time
\* when the cache has a maxAge, and becomes the most recently used.
cacheSet(b, c, key, value, t) ==
  LET i    == IndexOf(c, key)
      rest == IF i = 0 THEN c ELSE Without(c, i)
      hit  == [key |-> key, value |-> value,
               now |-> IF LruMaxAge(b) # 0 THEN t ELSE 0]
  IN trimCache(b, <<hit>> \o rest)

-----------------------------------------------------------------------------
(* The /verify handler: values *)

\* Requests in progress at the same time: their slots.
Requests == {1, 2}

StoredAtAfter(c, old, key, t) ==
  [k \in DOMAIN old |->
     IF IndexOf(c, k) = 0 THEN -1 ELSE IF k = key THEN t ELSE old[k]]

\* Request bodies: no email field, empty, whitespace only, a well-formed
\* address, the same address in other case and padding, a malformed one.
Bodies ==
  { [other |-> <<>>],
    [email |-> <<>>],
    [email |-> <<" ">>],
    [email |-> <<"a", "@", "b", ".", "c">>],
    [email |-> <<" ", "A", "@", "B", ".", "c", " ">>],
    [email |-> <<"a", "b">>] }

\* Date.now() can move between the two reads made by cache.has and cache.get.
HasGetGaps == 0..MaxSlack

ErrorBody(b) ==
  [error |-> CASE b = "part000b" -> "Email required"
               [] b = "part003" -> "email required"
               [] OTHER -> "Email is required"]

Null == [null |-> TRUE]

\* part_003: const skipSMTP = req.query.skip_smtp === 'true'
\* (the query string is carried by the request record beside the body).
SkipSmtp(b, body) ==
  b = "part003" /\ "skip_smtp" \in DOMAIN body /\ body.skip_smtp = "true"

\* part_003: const cacheKey = email + (skipSMTP ? '_skip' : ''); the other
\* files use email itself.
CacheKey(b, e, skip) ==
  IF b = "part003" /\ skip THEN e \o <<"_", "s", "k", "i", "p">> ELSE e

InitialResult(b, e) ==
  LET base == [email |-> e, valid_format |-> FALSE, domain_has_mx |-> FALSE,
               smtp_valid |-> FALSE, is_catch_all |-> FALSE,
               status |-> "invalid", warnings |-> <<>>, confidence_score |-> 0]
  IN CASE b = "part000a" -> base @@ [smtp_debug |-> Null]
       [] b = "part003" ->
            [email |-> e, valid_format |-> FALSE, domain_has_mx |-> FALSE,
             smtp_valid |-> Null, status |-> "invalid", confidence_score |-> 0,
             mx_records |-> <<>>, smtp_details |-> Null, warnings |-> <<>>]
       [] OTHER -> base

\* result.valid_format = isValidFormat(email), and in part_003 the warning
\* pushed when it is false.
WithFormat(b, r0, valid) ==
  LET r1 == [r0 EXCEPT !.valid_format = valid]
  IN IF b = "part003" /\ ~valid
     THEN [r1 EXCEPT !.warnings = Append(@, "Invalid email format")]
     ELSE r1

\* The two early returns store their verdict, except in the second draft of
\* part_000.
StoresEarlyVerdict(b) == b # "part000b"

NoMxWarning == "No MX records found"

CatchAllWarning(b) ==
  IF b = "part000b"
  THEN "Catch-all domain - mailbox may or may not exist"
  ELSE "Catch-all domain - mailbox existence cannot be verified"

WithNoMxForDomain(r0) ==
  [r0 EXCEPT !.warnings = Append(@, "No MX records found for domain")]

WithNoMx(r0) == [r0 EXCEPT !.warnings = Append(@, NoMxWarning)]

\* The no-MX verdict of each file.
NoMxVerdict(b, r0) ==
  IF b = "part003"
  THEN [r0 EXCEPT !.warnings = Append(@, "No MX records found for domain")]
  ELSE WithNoMx(r0)

\* result.domain_has_mx = true, and in part_003 the host names.
WithMx(b, r0, mx) ==
  IF b = "part003"
  THEN [r0 EXCEPT !.domain_has_mx = TRUE,
                  !.mx_records = [i \in 1..Len(mx) |-> mx[i].exchange]]
  ELSE [r0 EXCEPT !.domain_has_mx = TRUE]

\* part_003: the verdict when probing is skipped by request.
WithSkipped(r0) ==
  [r0 EXCEPT !.smtp_valid = Null,
             !.status = "likely_valid",
             !.warnings = Append(@, "SMTP verification skipped by request"),
             !.confidence_score = 75]

WithCatchAllSilent(b, r0) ==
  [r0 EXCEPT !.is_catch_all = TRUE, !.status = "unknown", !.confidence_score = 50]

WithCatchAll(b, r0) ==
  [r0 EXCEPT !.is_catch_all = TRUE,
             !.status = "unknown",
             !.confidence_score = 50,
             !.warnings = Append(@, CatchAllWarning(b))]

\* The branch taken when the sweep for the real address did not succeed.
WithUnconfirmedStrict(b, r0, smtpRes) ==
  [r0 EXCEPT !.status = "likely_invalid",
             !.confidence_score = 40,
             !.warnings = Append(@, "SMTP check failed")]

WithUnconfirmed(b, r0, smtpRes) ==
  CASE b = "part000a" ->
         [r0 EXCEPT !.status = "likely_invalid",
                    !.confidence_score = 40,
                    !.warnings = Append(@, smtpRes.message)]
    [] b = "part000b" ->
         [r0 EXCEPT !.status = "likely_valid",
                    !.confidence_score = 75,
                    !.warnings = Append(@, "SMTP server did not confirm mailbox")]
    [] OTHER ->
         [r0 EXCEPT !.status = "likely_valid",
                    !.confidence_score = 75,
                    !.warnings = Append(@,
                       "SMTP server did not confirm mailbox (could be greylisted, blocked, or deferred)")]

WithConfirmedFlagOnly(r0) == [r0 EXCEPT !.smtp_valid = TRUE]

WithConfirmed(r0) == [r0 EXCEPT !.status = "valid", !.confidence_score = 100]

\* part_003: the two branches after the sweep.
WithSmtpPart003(r0, smtpRes) ==
  IF smtpRes.success
  THEN [r0 EXCEPT !.status = "valid",
                  !.confidence_score = 100,
                  !.smtp_details = [mx_host |-> smtpRes.mx, port |-> smtpRes.port,
                                    tls |-> smtpRes.tls]]
  ELSE [r0 EXCEPT !.status = "likely_valid",
                  !.confidence_score = 75,
                  !.warnings = Append(@, "SMTP verification failed or was unreliable")]

\* result.smtp_valid = smtpRes.success and the if/else that follows.
WithSmtp(b, r0, smtpRes) ==
  LET r1 == IF b = "part000a" THEN [r0 EXCEPT !.smtp_debug = smtpRes] ELSE r0
      r2 == [r1 EXCEPT !.smtp_valid = smtpRes.success]
  IN CASE b = "part003" -> WithSmtpPart003(r2, smtpRes)
       [] smtpRes.success -> WithConfirmed(r2)
       [] OTHER -> WithUnconfirmed(b, r2, smtpRes)

-----------------------------------------------------------------------------
(* The sweep over MX hosts and port candidates *)

\* const ports = [{ port: 587, tls: true }, { port: 25, tls: false }]
ports == << [port |-> 587, tls |-> TRUE], [port |-> 25, tls |-> FALSE] >>

\* part_003 adds SMTPS on port 465 between the two.
portsPart003 ==
  << [port |-> 587, tls |-> TRUE], [port |-> 465, tls |-> TRUE],
     [port |-> 25, tls |-> FALSE] >>

PortsOf(b) == IF b = "part003" THEN portsPart003 ELSE ports

\* The address a probe names in RCPT TO: the request's own, or one of the
\* two made up by isCatchAll from Date.now() and the index.
\* (The digits of Date.now() in the made-up local part are not kept.)
RealAddress(e) == [synthetic |-> FALSE, index |-> 0, name |-> e]

randomEmails(domain) ==
  [i \in 1..2 |-> [synthetic |-> TRUE, index |-> i - 1, name |-> domain]]

NoSweep == [to |-> RealAddress(<<>>), fakes |-> <<>>, k |-> 0, mx |-> 0, port |-> 0]
NoConnection ==
  [stage |-> "none", resolved |-> FALSE, errored |-> FALSE, mailErr |-> FALSE,
   to |-> RealAddress(<<>>), sent |-> <<>>, quit |-> FALSE, result |-> Undefined,
   kept |-> <<>>]
NoResponse == [status |-> 0, body |-> Undefined]


\* The loops of verifyAllMX: the candidate after (mx, port), ports innermost.
LastCandidate(mx, s) == s.mx = Len(mx) /\ s.port = Len(PortsOf(build))

NextCandidateHostsFirst(mx, s) ==
  IF s.mx < Len(mx)
  THEN [s EXCEPT !.mx = @ + 1]
  ELSE [s EXCEPT !.mx = 1, !.port = @ + 1]

NextCandidate(mx, s) ==
  IF s.port < Len(PortsOf(build))
  THEN [s EXCEPT !.port = @ + 1]
  ELSE [s EXCEPT !.mx = @ + 1, !.port = 1]

ProbeOf(mx, s) ==
  [to |-> s.to, host |-> mx[s.mx].exchange, port |-> PortsOf(build)[s.port].port,
   tls |-> PortsOf(build)[s.port].tls, outcome |-> "pending"]

\* new SMTPConnection(...) in smtpVerify: nothing sent yet, the promise
\* unresolved.  The first draft of part_000 also creates the object `result'
\* that its callbacks fill in and that the promise is resolved with; `kept'
\* is the cache key of the verdict that refers to that object, if any.
NewConnection(b, p) ==
  [stage |-> "connecting", resolved |-> FALSE, errored |-> FALSE, mailErr |-> FALSE,
   to |-> p.to, sent |-> <<>>, quit |-> FALSE,
   result |-> IF b = "part000a"
              THEN [success |-> FALSE, code |-> Null, message |-> "",
                    mxHost |-> p.host, port |-> p.port, tls |-> p.tls]
              ELSE Undefined,
   kept |-> <<>>]

\* The commands a probe sends.
MailFromCandidate(c) == [cmd |-> "MAIL", from |-> c.to.name]

\* 'verify@yourdomain.com'
MailFrom(c) ==
  [cmd |-> "MAIL",
   from |-> <<"v", "e", "r", "i", "f", "y", "@", "y", "o", "u", "r", "d", "o", "m", "a", "i", "n",
            ".", "c", "o", "m">>]

RcptTo(c) == [cmd |-> "RCPT", to |-> c.to]

Quit == [cmd |-> "QUIT"]

\* part_003: connection.login({}, ...)
Login == [cmd |-> "AUTH"]

\* connection.on('error', ...) as far as the connection and the objects of
\* smtpVerify go (err.message is not kept: 'Connection error' stands for it).
OnError(b, c) ==
  [c EXCEPT !.errored = TRUE, !.resolved = TRUE,
            !.result = IF b = "part000a" /\ @ # Undefined
                       THEN [@ EXCEPT !.message = "Connection error"] ELSE @]

\* The callback of connection.rcpt, likewise.
OnRcpt(b, c, err) ==
  [c EXCEPT !.stage = "answered", !.resolved = TRUE,
            !.sent = Append(@, Quit), !.quit = TRUE,
            !.result = IF b # "part000a" \/ @ = Undefined THEN @
                       ELSE IF err
                            THEN [@ EXCEPT !.code = 550, !.message = "Recipient rejected"]
                            ELSE [@ EXCEPT !.success = TRUE, !.message = "Accepted"]]

\* resolve(...) settles the promise only the first time it is called
\* (server.js also guards the call with `resolved').
SettlesNever(c) == FALSE

SettlesAgain(c) == TRUE

Settles(c) == ~c.resolved

\* What is left of connection c once its probe is resolved, kept being the
\* cache key of the verdict that refers to its object `result' (<<>>: none):
\* how far it got and whether it has had its error, which decide the events
\* it can still emit, and the object while something refers to it.
Lingering(c, kept) ==
  [NoConnection EXCEPT !.stage = c.stage, !.resolved = TRUE,
                       !.errored = c.errored, !.quit = c.quit,
                       !.result = IF kept # <<>> THEN c.result ELSE Undefined,
                       !.kept = kept]

\* What verifyAllMX returns; c is the connection of its last probe.
SweepReturn(b, mx, s, c, success) ==
  IF b = "part000a"
  THEN IF success
       THEN c.result
       ELSE [success |-> FALSE, message |-> "All attempts failed"]
  ELSE IF success
       THEN [success |-> TRUE, mx |-> mx[s.mx].exchange,
             port |-> PortsOf(b)[s.port].port, tls |-> PortsOf(b)[s.port].tls]
       ELSE [success |-> FALSE]

\* Where control goes when verifyAllMX returns: from the sweep for the real
\* address (k = 0) to the verdict; from a sweep of isCatchAll to the sweep for
\* the real address on failure (return false), else to the next made-up
\* address, else (return true) to the catch-all verdict.
AfterSweepChecksLast(s, success) ==
  CASE s.k = 0 -> "verdict"
    [] s.k < Len(s.fakes) -> "fake"
    [] ~success -> "real"
    [] OTHER -> "catchall"

AfterSweepAlwaysReal(s, success) ==
  CASE s.k = 0 -> "verdict"
    [] ~success -> "real"
    [] s.k < Len(s.fakes) -> "fake"
    [] OTHER -> "real"

AfterSweep(s, success) ==
  CASE s.k = 0 -> "verdict"
    [] ~success -> "real"
    [] s.k < Len(s.fakes) -> "fake"
    [] OTHER -> "catchall"

SetLastKeeps(seq, field, value) == seq

SetLast(seq, field, value) ==
  [seq EXCEPT ![Len(seq)] = [@ EXCEPT ![field] = value]]

-----------------------------------------------------------------------------
(* The /verify handler: steps *)

\* The instants at which Date.now() is observed.
Instants == {base + j : base \in {0, 1000 * 60 * 60}, j \in 0..MaxSlack}

\* One client at a time, sending any of Bodies, with any answer from DNS.
OneClient ==
  [clients |-> {1}, bodies |-> Bodies, answers |-> DnsAnswers, instants |-> Instants]

InitWith(b, e) ==
  /\ build = b
  /\ env = e
  /\ now = 0
  /\ cache = <<>>
  /\ storedAt = [k \in {CacheKey(b, NormalizeEmail(body), SkipSmtp(b, body)) :
                            body \in e.bodies} \ {<<>>} |-> -1]
  /\ pc = [r \in Requests |-> "idle"]
  /\ email = [r \in Requests |-> <<>>]
  /\ skipSMTP = [r \in Requests |-> FALSE]
  /\ cacheKey = [r \in Requests |-> <<>>]
  /\ result = [r \in Requests |-> InitialResult(b, <<>>)]
  /\ mxRecords = [r \in Requests |-> <<>>]
  /\ sweep = [r \in Requests |-> NoSweep]
  /\ connection = [r \in Requests |-> NoConnection]
  /\ lingering = [r \in Requests |-> NoConnection]
  /\ res = [r \in Requests |-> NoResponse]
  /\ path = [r \in Requests |-> "none"]
  /\ lookups = [r \in Requests |-> 0]
  /\ probes = [r \in Requests |-> <<>>]
  /\ calls = [r \in Requests |-> <<>>]

InitBuild(b) == InitWith(b, OneClient)

Init == InitBuild("server")

\* Time passes.
Tick(t) ==
  /\ t > now
  /\ now' = t
  /\ UNCHANGED <<build, env, cache, storedAt>>
  /\ UNCHANGED perRequest

\* app.post('/verify', ...) from its first line to the first await or return:
\* the 400, the cache hit, the invalid-format verdict, or the MX lookup issued.
PostVerify(r, body, gap) ==
  /\ pc[r] \in {"idle", "done"}
  /\ now + gap \in env.instants
  /\ LET e       == NormalizeEmail(body)
         skip    == SkipSmtp(build, body)
         key     == CacheKey(build, e, skip)
         checked == WithFormat(build, InitialResult(build, e), isValidFormat(e))
         branch  == CASE e = <<>> -> "rejected"
                      [] cacheHas(build, cache, key, now) -> "hit"
                      [] ~checked.valid_format -> "computed"
                      [] OTHER -> "dns"
     IN /\ email' = [email EXCEPT ![r] = e]
        /\ skipSMTP' = [skipSMTP EXCEPT ![r] = skip]
        /\ cacheKey' = [cacheKey EXCEPT ![r] = IF e = <<>> THEN <<>> ELSE key]
        /\ path' = [path EXCEPT ![r] = IF branch = "dns" THEN "none" ELSE branch]
        /\ pc' = [pc EXCEPT ![r] = IF branch = "dns" THEN "dns" ELSE "done"]
        /\ now' = IF branch = "hit" THEN now + gap ELSE now
        /\ cache' = CASE branch = "hit" -> cacheAfterGet(build, cache, key, now + gap)
                      [] branch = "computed" /\ StoresEarlyVerdict(build) ->
                           cacheSet(build, cache, key, checked, now)
                      [] OTHER -> cache
        /\ storedAt' = StoredAtAfter(cache', storedAt,
                                     IF branch = "computed" /\ StoresEarlyVerdict(build)
                                     THEN key ELSE <<>>, now)
        /\ res' = [res EXCEPT ![r] =
                     CASE branch = "rejected" -> [status |-> 400, body |-> ErrorBody(build)]
                       [] branch = "hit" ->
                            [status |-> 200,
                             body |-> cacheGetValue(build, cache, key, now + gap)]
                       [] branch = "computed" -> [status |-> 200, body |-> checked]
                       [] OTHER -> NoResponse]
        /\ result' = [result EXCEPT ![r] =
                        IF branch \in {"computed", "dns"} THEN checked
                        ELSE InitialResult(build, <<>>)]
        /\ lookups' = [lookups EXCEPT ![r] = IF branch = "dns" THEN 1 ELSE 0]
        /\ mxRecords' = [mxRecords EXCEPT ![r] = <<>>]
        /\ sweep' = [sweep EXCEPT ![r] = NoSweep]
        /\ connection' = [connection EXCEPT ![r] = NoConnection]
        /\ probes' = [probes EXCEPT ![r] = <<>>]
        /\ calls' = [calls EXCEPT ![r] = <<>>]
        /\ UNCHANGED <<build, env, lingering>>

\* await getMXRecords(domain) returns: the no-MX verdict, or isCatchAll is
\* entered and the first probe of its first sweep started.
ResolveMx(r, answer) ==
  /\ pc[r] = "dns"
  /\ LET mx      == getMXRecords(answer)
         fakes   == randomEmails(DomainOf(email[r]))
         withMx  == WithMx(build, result[r], mx)
         first   == IF build = "part003"
                    THEN [to |-> RealAddress(email[r]), fakes |-> <<>>, k |-> 0,
                          mx |-> 1, port |-> 1]
                    ELSE [to |-> fakes[1], fakes |-> fakes, k |-> 1, mx |-> 1, port |-> 1]
         branch  == CASE mx = <<>> -> "nomx"
                      [] skipSMTP[r] -> "skipped"
                      [] OTHER -> "sweep"
         verdict == IF branch = "nomx" THEN NoMxVerdict(build, result[r])
                    ELSE WithSkipped(withMx)
         stores  == branch = "skipped" \/ StoresEarlyVerdict(build)
     IN IF branch = "sweep"
        THEN /\ result' = [result EXCEPT ![r] = withMx]
             /\ mxRecords' = [mxRecords EXCEPT ![r] = mx]
             /\ sweep' = [sweep EXCEPT ![r] = first]
             /\ connection' = [connection EXCEPT ![r] =
                                 NewConnection(build, ProbeOf(mx, first))]
             /\ probes' = [probes EXCEPT ![r] = <<ProbeOf(mx, first)>>]
             /\ calls' = [calls EXCEPT ![r] =
                            <<[to |-> first.to, returned |-> FALSE, success |-> FALSE]>>]
             /\ pc' = [pc EXCEPT ![r] = "probe"]
             /\ UNCHANGED <<cache, storedAt, res, path>>
        ELSE /\ result' = [result EXCEPT ![r] = verdict]
             /\ cache' = IF stores
                         THEN cacheSet(build, cache, cacheKey[r], verdict, now)
                         ELSE cache
             /\ storedAt' = StoredAtAfter(cache', storedAt,
                                          IF stores THEN cacheKey[r] ELSE <<>>, now)
             /\ res' = [res EXCEPT ![r] = [status |-> 200, body |-> verdict]]
             /\ path' = [path EXCEPT ![r] = "computed"]
             /\ pc' = [pc EXCEPT ![r] = "done"]
             /\ mxRecords' = [mxRecords EXCEPT ![r] =
                                IF branch = "skipped" THEN mx ELSE @]
             /\ UNCHANGED <<sweep, connection, probes, calls>>
  /\ UNCHANGED <<build, env, now, email, skipSMTP, cacheKey, lookups, lingering>>

\* resolve(...) of the running smtpVerify, whose connection is now c, and
\* everything that runs before the next await: the loops of verifyAllMX and
\* isCatchAll, and the handler up to its next probe or its response.
ProbeResolved(r, c, success) ==
  LET s        == sweep[r]
      mx       == mxRecords[r]
      returns  == success \/ LastCandidate(mx, s)
      step     == IF returns THEN AfterSweep(s, success) ELSE "next"
      finished == step \in {"verdict", "catchall"}
      logged   == SetLast(probes[r], "outcome",
                          IF success THEN "accepted" ELSE "failed")
      returned == IF returns
                  THEN SetLast(SetLast(calls[r], "returned", TRUE), "success", success)
                  ELSE calls[r]
      sweepN   == CASE step = "next" -> NextCandidate(mx, s)
                    [] step = "real" ->
                         [to |-> RealAddress(email[r]), fakes |-> <<>>, k |-> 0,
                          mx |-> 1, port |-> 1]
                    [] step = "fake" ->
                         [s EXCEPT !.to = s.fakes[s.k + 1], !.k = @ + 1,
                                   !.mx = 1, !.port = 1]
                    [] OTHER -> NoSweep
      final    == CASE step = "catchall" -> WithCatchAll(build, result[r])
                    [] step = "verdict" ->
                         WithSmtp(build, result[r], SweepReturn(build, mx, s, c, success))
                    [] step = "real" ->
                         [result[r] EXCEPT !.is_catch_all = FALSE]
                    [] OTHER -> result[r]
      keeps    == build = "part000a" /\ step = "verdict" /\ success
  IN /\ probes' = [probes EXCEPT ![r] =
                     IF finished THEN logged ELSE Append(logged, ProbeOf(mx, sweepN))]
     /\ calls' = [calls EXCEPT ![r] =
                    IF step \in {"real", "fake"}
                    THEN Append(returned,
                                [to |-> sweepN.to, returned |-> FALSE, success |-> FALSE])
                    ELSE returned]
     /\ sweep' = [sweep EXCEPT ![r] = sweepN]
     /\ connection' = [connection EXCEPT ![r] =
                         IF finished THEN NoConnection
                         ELSE NewConnection(build, ProbeOf(mx, sweepN))]
     /\ lingering' = [lingering EXCEPT ![r] =
                        Lingering(c, IF keeps THEN cacheKey[r] ELSE <<>>)]
     /\ result' = [result EXCEPT ![r] = final]
     /\ cache' = IF finished
                 THEN cacheSet(build, cache, cacheKey[r], final, now) ELSE cache
     /\ storedAt' = IF finished
                    THEN StoredAtAfter(cache', storedAt, cacheKey[r], now)
                    ELSE storedAt
     /\ res' = [res EXCEPT ![r] =
                  IF finished THEN [status |-> 200, body |-> final] ELSE @]
     /\ path' = [path EXCEPT ![r] = IF finished THEN "computed" ELSE @]
     /\ pc' = [pc EXCEPT ![r] = IF finished THEN "done" ELSE @]
     /\ UNCHANGED <<build, env, now, email, skipSMTP, cacheKey, mxRecords, lookups>>

\* Whether connection.connect's callback waits for the MAIL answer before
\* issuing RCPT (server.js) or issues both at once (the drafts).
MailHasCallback(b) == b = "server"

\* connection.connect(() => { connection.mail(...) ... }); in part_003 the
\* callback calls connection.login({}, ...) first.
ConnectCb(r) ==
  /\ pc[r] = "probe"
  /\ connection[r].stage = "connecting"
  /\ connection' = [connection EXCEPT ![r] =
        IF build = "part003"
        THEN [@ EXCEPT !.stage = "login", !.sent = <<Login>>]
        ELSE [@ EXCEPT !.stage = "mail",
                       !.sent = IF MailHasCallback(build)
                                THEN <<MailFrom(connection[r])>>
                                ELSE <<MailFrom(connection[r]), RcptTo(connection[r])>>]]
  /\ UNCHANGED <<build, env, now, cache, storedAt, pc, email, skipSMTP, cacheKey, result,
                 mxRecords, sweep, lingering, res, path, lookups, probes, calls>>

\* part_003: the callback of connection.login.  On an error it quits and
\* resolves the probe as failed; otherwise it issues MAIL FROM and RCPT TO.
LoginCb(r, loginErr) ==
  /\ pc[r] = "probe"
  /\ connection[r].stage = "login"
  /\ IF loginErr
     THEN ProbeResolved(r, [connection[r] EXCEPT !.resolved = TRUE,
                                                 !.sent = Append(@, Quit),
                                                 !.quit = TRUE], FALSE)
     ELSE /\ connection' = [connection EXCEPT ![r] =
                [@ EXCEPT !.stage = "mail",
                          !.sent = @ \o <<MailFrom(connection[r]), RcptTo(connection[r])>>]]
          /\ UNCHANGED <<build, env, now, cache, storedAt, pc, email, skipSMTP, cacheKey,
                         result, mxRecords, sweep, lingering, res, path, lookups,
                         probes, calls>>

\* The server answers MAIL FROM; server.js then issues RCPT TO whatever the
\* answer was.
MailCb(r, err) ==
  /\ pc[r] = "probe"
  /\ connection[r].stage = "mail"
  /\ connection' = [connection EXCEPT ![r] =
        [@ EXCEPT !.stage = "rcpt",
                  !.mailErr = err,
                  !.sent = IF MailHasCallback(build)
                           THEN Append(@, RcptTo(connection[r])) ELSE @]]
  /\ UNCHANGED <<build, env, now, cache, storedAt, pc, email, skipSMTP, cacheKey, result,
                 mxRecords, sweep, lingering, res, path, lookups, probes, calls>>

\* connection.rcpt({ to: email }, (err) => { quit; resolve({success: !err}) })
RcptCb(r, err) ==
  /\ pc[r] = "probe"
  /\ connection[r].stage = "rcpt"
  /\ Settles(connection[r])
  /\ ProbeResolved(r, OnRcpt(build, connection[r], err), ~err)

\* connection.on('error', ...): refused, timed out, TLS failure, socket error.
ConnectionError(r) ==
  /\ pc[r] = "probe"
  /\ connection[r].stage \in {"connecting", "login", "mail", "rcpt"}
  /\ Settles(connection[r])
  /\ ProbeResolved(r, OnError(build, connection[r]), FALSE)

\* An event on the connection of a probe that is already resolved: the
\* handler runs again, resolve(...) is without effect, and what the handler
\* writes to the object of the first draft of part_000 shows wherever that
\* object is referred to: in result.smtp_debug and so in the cached verdict.
AfterResolve(r, c) ==
  LET old     == lingering[r]
      aliased == old.kept # <<>> /\ old.result # c.result
      Patched(v) == IF "smtp_debug" \in DOMAIN v /\ v.smtp_debug = old.result
                    THEN [v EXCEPT !.smtp_debug = c.result] ELSE v
  IN /\ lingering' = [lingering EXCEPT ![r] = Lingering(c, old.kept)]
     /\ result' = IF aliased THEN [result EXCEPT ![r] = Patched(@)] ELSE result
     /\ cache' = IF aliased
                 THEN [i \in 1..Len(cache) |->
                         IF cache[i].key = old.kept
                         THEN [cache[i] EXCEPT !.value = Patched(@)] ELSE cache[i]]
                 ELSE cache
     /\ UNCHANGED <<build, env, now, storedAt, pc, email, skipSMTP, cacheKey, mxRecords,
                    sweep, connection,
                    res, path, lookups, probes, calls>>

\* A socket error after the probe was resolved by the RCPT answer.
ErrorAfterResolve(r) ==
  /\ lingering[r].stage = "answered"
  /\ ~lingering[r].errored
  /\ IF Settles(lingering[r]) /\ pc[r] = "probe"
     THEN ProbeResolved(r, OnError(build, lingering[r]), FALSE)
     ELSE AfterResolve(r, OnError(build, lingering[r]))

\* The RCPT answer arriving after the probe was resolved by an error.
RcptCbAfterResolve(r, err) ==
  /\ lingering[r].stage = "rcpt"
  /\ IF Settles(lingering[r]) /\ pc[r] = "probe"
     THEN ProbeResolved(r, OnRcpt(build, lingering[r], err), ~err)
     ELSE AfterResolve(r, OnRcpt(build, lingering[r], err))

Next ==
  \/ \E t \in env.instants : Tick(t)
  \/ \E r \in env.clients, body \in env.bodies, gap \in HasGetGaps :
        PostVerify(r, body, gap)
  \/ \E r \in env.clients, answer \in env.answers : ResolveMx(r, answer)
  \/ \E r \in env.clients : ConnectCb(r)
  \/ \E r \in env.clients, err \in BOOLEAN : MailCb(r, err)
  \/ \E r \in env.clients, err \in BOOLEAN : RcptCb(r, err)
  \/ \E r \in env.clients : ConnectionError(r)
  \/ \E r \in env.clients : ErrorAfterResolve(r)
  \/ \E r \in env.clients, err \in BOOLEAN : RcptCbAfterResolve(r, err)

Spec == Init /\ [][Next]_vars

\* The handler of server.js up to the MX lookup, for one client sending one
\* email string of up to MaxLen characters.
Alphabet == {"a", "A", "@", ".", " "}

Strings == UNION {[1..n -> Alphabet] : n \in 0..MaxLen}

InitFormat ==
  \E s \in Strings :
     InitWith("server", [clients |-> {1}, bodies |-> {[email |-> s]},
                         answers |-> {DnsThrows}, instants |-> {0}])

NextFormat ==
  \/ \E r \in env.clients, body \in env.bodies, gap \in HasGetGaps :
        PostVerify(r, body, gap)
  \/ \E r \in env.clients, answer \in env.answers : ResolveMx(r, answer)

SpecFormat == InitFormat /\ [][NextFormat]_vars

\* server.js with two clients whose requests overlap, both for the same
\* address, its domain having one MX host.
TwoClients ==
  [clients |-> {1, 2},
   bodies |-> {[email |-> <<"a", "@", "b", ".", "c">>]},
   answers |-> {[records |-> <<[exchange |-> "mx1", priority |-> 10]>>]},
   instants |-> {0, 1}]

SpecConcurrent == InitWith("server", TwoClients) /\ [][Next]_vars

\* The draft src/unnamed/part_003, with the skip_smtp query flag: one client,
\* an address with and without the flag, and the address that ends in _skip.
SkipBodies ==
  { [email |-> <<"a", "@", "b", ".", "c">>, skip_smtp |-> "true"],
    [email |-> <<"a", "@", "b", ".", "c">>, skip_smtp |-> "false"],
    [email |-> <<"a", "@", "b", ".", "c">>],
    [email |-> <<"a", "@", "b", ".", "c", "_", "s", "k", "i", "p">>],
    [email |-> <<"a", "b">>, skip_smtp |-> "true"],
    [other |-> <<>>] }

NextPart003 ==
  \/ Next
  \/ \E r \in env.clients, loginErr \in BOOLEAN : LoginCb(r, loginErr)

SpecPart003 ==
  /\ InitWith("part003",
              [clients |-> {1}, bodies |-> SkipBodies,
               answers |-> {DnsThrows, [records |-> <<[exchange |-> "mx1", priority |-> 10]>>]},
               instants |-> {0, 1}])
  /\ [][NextPart003]_vars

\* The two drafts of src/unnamed/part_000.
SpecPart000a == InitBuild("part000a") /\ [][Next]_vars
SpecPart000b == InitBuild("part000b") /\ [][Next]_vars

\* What the network owes a request that is waiting: the answer of
\* dns.resolveMx, and for its running probe the callback of the command
\* issued or the 'error' event that connectionTimeout, greetingTimeout and
\* socketTimeout raise.
NetworkAnswers(r) ==
  \/ \E answer \in env.answers : ResolveMx(r, answer)
  \/ ConnectCb(r)
  \/ \E err \in BOOLEAN : MailCb(r, err)
  \/ \E err \in BOOLEAN : RcptCb(r, err)
  \/ ConnectionError(r)

\* server.js with a network that always answers in the end: one client, a
\* well-formed and a malformed address, any answer from DNS.
Answering ==
  [clients |-> {1},
   bodies |-> {[email |-> <<"a", "@", "b", ".", "c">>], [email |-> <<"a", "b">>]},
   answers |-> DnsAnswers,
   instants |-> {0, 1}]

SpecLive ==
  /\ InitWith("server", Answering)
  /\ [][Next]_vars
  /\ \A r \in Requests : WF_vars(NetworkAnswers(r))

-----------------------------------------------------------------------------
(* Claims *)

Computed(r) == pc[r] = "done" /\ path[r] = "computed"

\* The decision table of the verdict aggregator, first matching row wins.
DecisionTable(validFormat, domainHasMX, isCatch, smtpValid) ==
  CASE ~validFormat -> <<"invalid", 0>>
    [] ~domainHasMX -> <<"invalid", 0>>
    [] isCatch      -> <<"unknown", 50>>
    [] smtpValid    -> <<"valid", 100>>
    [] OTHER        -> <<"likely_valid", 75>>

\* C1: every verdict the handler computes (cache miss, non-empty email)
\* carries the status and confidence_score the decision table gives for its
\* own flags.
C1_VerdictFollowsTable ==
  \A r \in Requests :
    Computed(r) =>
      LET b == res[r].body
      IN <<b.status, b.confidence_score>> =
           DecisionTable(b.valid_format, b.domain_has_mx, b.is_catch_all, b.smtp_valid)

\* A computed verdict of the last row: MX found, not catch-all, not confirmed.
C1_Witness ==
  \E r \in Requests :
    /\ Computed(r)
    /\ res[r].body.domain_has_mx /\ ~res[r].body.is_catch_all
    /\ ~res[r].body.smtp_valid
    /\ res[r].body.status = "likely_valid"

\* The (host, candidate) pairs in lexicographic order: hosts as listed, and
\* for each host every port candidate of the policy.
Candidates(mx) ==
  [n \in 1..(Len(mx) * 2) |->
     [host |-> mx[(n + 1) \div 2].exchange,
      port |-> IF n % 2 = 1 THEN 587 ELSE 25,
      tls  |-> n % 2 = 1]]

IsAscending(mx) ==
  \A i, j \in 1..Len(mx) : i < j => mx[i].priority <= mx[j].priority

ProbesTo(r, to) == SelectSeq(probes[r], LAMBDA p : p.to = to)

\* C2: the probes of one verifyAllMX call are a prefix of the ordered
\* (host, candidate) list, hosts in ascending priority; only the last probe
\* can have succeeded; the call returns success iff it did, and returns
\* failure only with the whole list probed, each pair once.
C2_SweepOrder ==
  \A r \in Requests :
    /\ IsAscending(mxRecords[r])
    /\ \A c \in 1..Len(calls[r]) :
         LET ps   == ProbesTo(r, calls[r][c].to)
             want == Candidates(mxRecords[r])
         IN /\ Len(ps) >= 1 /\ Len(ps) <= Len(want)
            /\ \A n \in 1..Len(ps) :
                 /\ ps[n].host = want[n].host
                 /\ ps[n].port = want[n].port
                 /\ ps[n].tls = want[n].tls
                 /\ n < Len(ps) => ps[n].outcome = "failed"
            /\ calls[r][c].returned = (ps[Len(ps)].outcome # "pending")
            /\ calls[r][c].returned =>
                 /\ calls[r][c].success = (ps[Len(ps)].outcome = "accepted")
                 /\ ~calls[r][c].success => Len(ps) = Len(want)

\* A sweep over two hosts that succeeded on the first candidate of the second
\* host, after both candidates of the first.
C2_Witness ==
  \E r \in Requests :
    \E c \in 1..Len(calls[r]) :
      /\ calls[r][c].returned /\ calls[r][c].success
      /\ Len(ProbesTo(r, calls[r][c].to)) = 3
      /\ mxRecords[r][1].priority < mxRecords[r][2].priority

SyntheticCalls(r) == SelectSeq(calls[r], LAMBDA c : c.to.synthetic)

\* isCatchAll has returned: the handler went on to the real address, or
\* answered with a verdict computed after MX records were found.
CatchAllDecided(r) ==
  \/ \E c \in 1..Len(calls[r]) : ~calls[r][c].to.synthetic
  \/ Computed(r) /\ res[r].body.domain_has_mx

\* C3: isCatchAll is true iff the sweeps for both made-up addresses succeed;
\* when the first fails it is false and the second address is never probed;
\* the second sweep starts only after the first has returned.
C3_CatchAll ==
  \A r \in Requests :
    LET syn == SyntheticCalls(r)
    IN /\ Len(syn) <= 2
       /\ \A c \in 1..Len(syn) : syn[c].to.index = c - 1
       /\ Len(syn) = 2 => syn[1].returned /\ syn[1].success
       /\ (Len(syn) >= 1 /\ syn[1].returned /\ ~syn[1].success) =>
            /\ \A n \in 1..Len(probes[r]) :
                 ~(probes[r][n].to.synthetic /\ probes[r][n].to.index = 1)
            /\ CatchAllDecided(r) /\ ~result[r].is_catch_all
       /\ \A n \in 1..Len(calls[r]) : n < Len(calls[r]) => calls[r][n].returned
       /\ \A m, n \in 1..Len(probes[r]) :
            (m < n /\ probes[r][n].to.synthetic /\ probes[r][n].to.index = 0)
              => probes[r][m].to = probes[r][n].to
       /\ CatchAllDecided(r) =>
            (result[r].is_catch_all =
               (Len(syn) = 2 /\ \A c \in 1..2 : syn[c].returned /\ syn[c].success))

\* The first made-up address was rejected everywhere: isCatchAll returned
\* false and the handler is probing the real address.
C3_Witness ==
  \E r \in Requests :
    /\ pc[r] = "probe"
    /\ Len(SyntheticCalls(r)) = 1
    /\ ~SyntheticCalls(r)[1].success
    /\ ~sweep[r].to.synthetic

RealProbes(r) == SelectSeq(probes[r], LAMBDA p : ~p.to.synthetic)

ClassifiedCatchAll(r) ==
  /\ Len(SyntheticCalls(r)) = 2
  /\ \A c \in 1..2 : SyntheticCalls(r)[c].returned /\ SyntheticCalls(r)[c].success

\* C4: a probe naming the real address starts only after isCatchAll has
\* returned (false), and follows every probe of a made-up address; a domain
\* classified catch-all ends the request with status unknown, confidence 50,
\* smtp_valid false and no probe of the real address.
C4_RealAfterCatchAll ==
  \A r \in Requests :
    /\ RealProbes(r) # <<>> =>
         /\ SyntheticCalls(r) # <<>>
         /\ \A c \in 1..Len(SyntheticCalls(r)) : SyntheticCalls(r)[c].returned
         /\ ~ClassifiedCatchAll(r)
         /\ \A m, n \in 1..Len(probes[r]) :
              (~probes[r][m].to.synthetic /\ probes[r][n].to.synthetic) => n < m
         /\ \A n \in 1..Len(RealProbes(r)) :
              RealProbes(r)[n].to = RealAddress(email[r])
    /\ ClassifiedCatchAll(r) =>
         /\ RealProbes(r) = <<>>
         /\ Computed(r)
         /\ res[r].status = 200
         /\ res[r].body.is_catch_all
         /\ res[r].body.status = "unknown"
         /\ res[r].body.confidence_score = 50
         /\ res[r].body.smtp_valid = FALSE

\* A request answered as catch-all.
C4_Witness ==
  \E r \in Requests :
    /\ Computed(r) /\ ClassifiedCatchAll(r)
    /\ res[r].body.status = "unknown"
    /\ Len(probes[r]) >= 2

OneHour == 1000 * 60 * 60

Entry(key) == cache[IndexOf(cache, key)]

IsVerificationResult(b) ==
  {"email", "valid_format", "domain_has_mx", "smtp_valid", "is_catch_all",
   "status", "warnings", "confidence_score"} \subseteq DOMAIN b

\* The request finds an entry for key that has not expired when cache.get
\* reads it, at time t.
FindsUnexpired(key, t) ==
  /\ key # <<>>
  /\ IndexOf(cache, key) # 0
  /\ t - storedAt[key] <= OneHour

C6_EveryVerdictStored ==
  \A r \in Requests :
    Computed(r) =>
      /\ IndexOf(cache, email[r]) # 0
      /\ Entry(email[r]).value = res[r].body

\* C7: a request arriving more than one hour after its key's entry was
\* stored is not served that entry: it runs the format check again and, for
\* a well-formed address, the MX lookup (for a malformed one the fresh verdict
\* is stored at once); a request arriving less than an hour after is served
\* the entry.
C7_Expiry ==
  [][\A r \in Requests, body \in Bodies, gap \in HasGetGaps :
       LET key == NormalizeEmail(body)
       IN (PostVerify(r, body, gap) /\ key # <<>> /\ IndexOf(cache, key) # 0) =>
            /\ now - storedAt[key] > OneHour =>
                 /\ path'[r] # "hit"
                 /\ isValidFormat(key) => pc'[r] = "dns" /\ lookups'[r] = 1
                 /\ ~isValidFormat(key) =>
                      /\ res'[r].body.valid_format = FALSE
                      /\ storedAt'[key] = now
            /\ now - storedAt[key] < OneHour =>
                 /\ path'[r] = "hit"
                 /\ res'[r] = [status |-> 200, body |-> Entry(key).value]]_vars

\* Whether the body has no email field or one that is only whitespace.
MissingOrBlank(body) ==
  \/ "email" \notin DOMAIN body
  \/ \A i \in 1..Len(body.email) : body.email[i] \in Whitespace

\* C8: a request with no email, or an email empty after lower-casing and
\* trimming, is answered 400 {error: 'Email is required'} with no DNS lookup,
\* no probe and the cache exactly as it was.
C8_EmptyIsRejected ==
  [][\A r \in Requests, body \in Bodies, gap \in HasGetGaps :
       (PostVerify(r, body, gap) /\ MissingOrBlank(body)) =>
          /\ res'[r] = [status |-> 400, body |-> [error |-> "Email is required"]]
          /\ pc'[r] = "done"
          /\ lookups'[r] = 0 /\ probes'[r] = <<>> /\ calls'[r] = <<>>
          /\ cache' = cache]_vars

\* A request rejected with 400 while the cache holds entries.
C8_Witness ==
  \E r \in Requests :
    /\ pc[r] = "done" /\ path[r] = "rejected"
    /\ res[r].status = 400
    /\ Len(cache) = 2

\* C9: every request with a non-empty email is answered 200 with a
\* VerificationResult.
C9_AlwaysAVerdict ==
  \A r \in Requests :
    (pc[r] = "done" /\ email[r] # <<>>) =>
       /\ res[r].status = 200
       /\ IsVerificationResult(res[r].body)

\* C10: when the MX lookup of a well-formed address fails or yields no
\* record, the request ends there, without any probe, with domain_has_mx
\* false, status invalid, confidence 0 and the single warning
\* 'No MX records found'.
C10_NoMx ==
  [][\A r \in Requests, answer \in DnsAnswers :
       (ResolveMx(r, answer) /\ (answer = DnsThrows \/ answer = [records |-> <<>>])) =>
          /\ pc'[r] = "done"
          /\ probes'[r] = <<>> /\ calls'[r] = <<>>
          /\ res'[r].status = 200
          /\ res'[r].body.email = email[r]
          /\ res'[r].body.valid_format
          /\ res'[r].body.domain_has_mx = FALSE
          /\ res'[r].body.status = "invalid"
          /\ res'[r].body.confidence_score = 0
          /\ res'[r].body.warnings = <<"No MX records found">>]_vars

\* A no-MX verdict for a well-formed address.
C10_Witness ==
  \E r \in Requests :
    /\ Computed(r) /\ lookups[r] = 1
    /\ res[r].body.valid_format /\ ~res[r].body.domain_has_mx
    /\ res[r].body.warnings = <<"No MX records found">>
    /\ probes[r] = <<>>

Clean(t) == \A k \in 1..Len(t) : t[k] # " " /\ t[k] # "@"

\* s is X@Y.Z with X, Y and Z non-empty and free of whitespace and '@'.
FormXYZ(s) ==
  \E i, j \in 1..Len(s) :
     LET X == SubSeq(s, 1, i - 1)
         Y == SubSeq(s, i + 1, j - 1)
         Z == SubSeq(s, j + 1, Len(s))
     IN /\ i < j
        /\ s = X \o <<"@">> \o Y \o <<".">> \o Z
        /\ X # <<>> /\ Y # <<>> /\ Z # <<>>
        /\ Clean(X) /\ Clean(Y) /\ Clean(Z)

Contains(s, ch) == \E k \in 1..Len(s) : s[k] = ch

\* C11: isValidFormat accepts exactly the strings X@Y.Z, so none without '@'
\* or without '.'; a request whose address fails it is answered at once with
\* valid_format false, status invalid and confidence 0, without DNS lookup
\* or probe, and one whose address passes goes on to the MX lookup.
C11_FormatGate ==
  [][\A r \in Requests, body \in env.bodies, gap \in HasGetGaps :
       LET e == NormalizeEmail(body)
       IN (PostVerify(r, body, gap) /\ e # <<>> /\ path'[r] # "hit") =>
            /\ isValidFormat(e) <=> FormXYZ(e)
            /\ (~Contains(e, "@") \/ ~Contains(e, ".")) => ~isValidFormat(e)
            /\ FormXYZ(e) => pc'[r] = "dns" /\ result'[r].valid_format
            /\ ~FormXYZ(e) =>
                 /\ pc'[r] = "done"
                 /\ res'[r].status = 200
                 /\ res'[r].body.valid_format = FALSE
                 /\ res'[r].body.status = "invalid"
                 /\ res'[r].body.confidence_score = 0
                 /\ lookups'[r] = 0 /\ probes'[r] = <<>> /\ calls'[r] = <<>>]_vars

\* An address with '@' and without '.', of full length, answered as invalid.
C11_Witness ==
  \E r \in Requests :
    /\ Computed(r)
    /\ Len(email[r]) = MaxLen
    /\ Contains(email[r], "@") /\ ~Contains(email[r], ".")
    /\ res[r].body.valid_format = FALSE /\ res[r].body.status = "invalid"
    /\ lookups[r] = 0

SwapCase(ch) ==
  CASE ch = "a" -> "A" [] ch = "A" -> "a" [] OTHER -> ch

\* Strings that differ from s only in letter case or surrounding whitespace.
Variants(s) ==
  LET swapped == [k \in 1..Len(s) |-> SwapCase(s[k])]
  IN {swapped, <<" ">> \o s, s \o <<" ">>, <<" ">> \o swapped \o <<" ">>}

IsNormal(e) ==
  /\ \A k \in 1..Len(e) : e[k] # "A"
  /\ e # <<>> => e[1] # " " /\ e[Len(e)] # " "

\* C12: the address the handler works with is the email lower-cased and
\* trimmed, normalizing it again changes nothing, it is the email of the
\* result and the cache key, and a request whose email differs only in case
\* or surrounding whitespace takes exactly the same step: same cache entry
\* read or written, same response.
C12_NormalizedAddress ==
  [][\A r \in Requests, body \in env.bodies, gap \in HasGetGaps :
       PostVerify(r, body, gap) =>
         LET e == email'[r]
         IN /\ IsNormal(e)
            /\ NormalizeEmail([email |-> e]) = e
            /\ pc'[r] = "dns" => result'[r].email = e
            /\ path'[r] = "computed" =>
                 /\ res'[r].body.email = e
                 /\ cache'[1].key = e /\ cache'[1].value = res'[r].body
            /\ path'[r] = "hit" => res'[r].body.email = e
            /\ \A v \in Variants(body.email) : PostVerify(r, [email |-> v], gap)]_vars

\* A request whose email had capitals or padding, served from the cache
\* under its normalized address.
C12_Witness ==
  \E r \in Requests :
    /\ pc[r] = "done" /\ path[r] = "hit"
    /\ [email |-> email[r]] \notin env.bodies
    /\ Contains(email[r], "a")
    /\ res[r].body.email = email[r]

\* An event on the connection of request r's resolved probe.
LateEvent(r) ==
  ErrorAfterResolve(r) \/ \E err \in BOOLEAN : RcptCbAfterResolve(r, err)

\* C13: a probe has one outcome, fixed by the first of its events: an error
\* resolves it as failed, the RCPT answer as accepted exactly when it carries
\* no error; an event after that leaves what verifyAllMX and the handler saw
\* and did as it is, and the logged outcome of a probe never changes.
C13_OneOutcome ==
  [][\A r \in Requests :
       LET n == Len(probes[r])
       IN /\ ConnectionError(r) => probes'[r][n].outcome = "failed"
          /\ \A err \in BOOLEAN :
               RcptCb(r, err) =>
                 probes'[r][n].outcome = IF err THEN "failed" ELSE "accepted"
          /\ LateEvent(r) =>
               /\ probes' = probes /\ calls' = calls /\ sweep' = sweep
               /\ pc' = pc /\ res' = res /\ connection' = connection
          /\ \A i \in 1..n :
               (probes[r][i].outcome # "pending" /\ pc[r] = "probe" /\ email'[r] = email[r])
                  => /\ Len(probes'[r]) >= n
                     /\ probes'[r][i] = probes[r][i]]_vars

\* A connection that had both its RCPT answer and an error, while a later
\* probe of the same request is in flight.
C13_Witness ==
  \E r \in Requests :
    /\ lingering[r].stage = "answered" /\ lingering[r].errored
    /\ pc[r] = "probe"
    /\ Len(probes[r]) >= 2

\* C14: by the time a probe is resolved, on whatever path, its connection
\* has been told to quit.
C14_QuitBeforeResolve ==
  \A r \in Requests : lingering[r].resolved => lingering[r].quit

FixedSender ==
  <<"v", "e", "r", "i", "f", "y", "@", "y", "o", "u", "r", "d", "o", "m", "a", "i", "n",
     ".", "c", "o", "m">>

Sent(r) == {connection[r].sent[k] : k \in 1..Len(connection[r].sent)}

\* C15: the only sender a probe declares is verify@yourdomain.com, whatever
\* the request, and the commands it issues are MAIL FROM, RCPT TO and QUIT
\* only: never DATA.
C15_FixedSenderNoData ==
  \A r \in Requests :
    \A command \in Sent(r) :
       /\ command.cmd \in {"MAIL", "RCPT", "QUIT"}
       /\ command.cmd = "MAIL" =>
            /\ command.from = FixedSender
            /\ command.from # email[r]

\* A probe of the requested address that has declared its sender and named
\* the recipient.
C15_Witness ==
  \E r \in Requests :
    /\ pc[r] = "probe"
    /\ ~connection[r].to.synthetic
    /\ \E c1, c2 \in Sent(r) : c1.cmd = "MAIL" /\ c2.cmd = "RCPT" /\ c2.to.name = email[r]

\* A complete, final verdict for key: every field present, the key as its
\* email, status and confidence as the decision table gives them.
FinalVerdictFor(key, v) ==
  /\ IsVerificationResult(v)
  /\ v.email = key
  /\ <<v.status, v.confidence_score>> =
       DecisionTable(v.valid_format, v.domain_has_mx, v.is_catch_all, v.smtp_valid)

\* C16: with requests overlapping in any way, every cache entry is at all
\* times one complete final verdict for its key, and a step that changes the
\* value stored for a key stores the verdict with which one request for that
\* key is answered in that step.
C16_CacheUncorrupted ==
  [][\A i \in 1..Len(cache') :
       LET key == cache'[i].key
           v   == cache'[i].value
       IN /\ FinalVerdictFor(key, v)
          /\ (IndexOf(cache, key) = 0 \/ Entry(key).value # v) =>
               \E r \in Requests :
                  /\ pc'[r] = "done" /\ path'[r] = "computed"
                  /\ email'[r] = key
                  /\ res'[r] = [status |-> 200, body |-> v]
                  /\ result'[r] = v]_vars

\* Two requests for the same address that both missed the cache: one has
\* stored its verdict while the other, started before that, is still probing.
C16_Witness ==
  \E r1, r2 \in Requests :
    /\ r1 # r2
    /\ email[r1] = email[r2]
    /\ Computed(r1) /\ lookups[r1] = 1 /\ probes[r1] # <<>>
    /\ pc[r2] = "probe" /\ lookups[r2] = 1
    /\ IndexOf(cache, email[r1]) # 0
    /\ Entry(email[r1]).value = res[r1].body

SkippedVerdict(v) ==
  \E k \in 1..Len(v.warnings) : v.warnings[k] = "SMTP verification skipped by request"

\* C17: in part_003 a response carrying a result is the verdict for the
\* request's own address and skip flag: its email is the request's normalized
\* email, it is a skipped verdict only if the request asked to skip, and a
\* request that asked to skip for a domain with MX hosts gets a skipped one.
C17_OwnAddressAndFlag ==
  \A r \in Requests :
    (pc[r] = "done" /\ res[r].status = 200 /\ res[r].body # Undefined) =>
       LET v == res[r].body
       IN /\ v.email = email[r]
          /\ SkippedVerdict(v) => skipSMTP[r]
          /\ (skipSMTP[r] /\ v.domain_has_mx) => SkippedVerdict(v)

\* C18: RCPT TO is on the wire only once the server has accepted MAIL FROM.
C18_RcptAfterMailAccepted ==
  \A r \in Requests :
    (\E command \in Sent(r) : command.cmd = "RCPT") =>
       /\ connection[r].stage \in {"rcpt", "answered"}
       /\ ~connection[r].mailErr

\* C19: when the server rejects the recipient, verifyAllMX tries no further
\* candidate for that address.
C19_NoRetryAfterRejection ==
  [][\A r \in Requests :
       RcptCb(r, TRUE) =>
          \/ Len(probes'[r]) = Len(probes[r])
          \/ probes'[r][Len(probes'[r])].to # sweep[r].to]_vars

\* C20: the value stored for a key changes only by cache.set, that is in the
\* step that completes a request for that key; no other event of any request
\* changes a field of a stored result, nested ones included.
C20_CachedResultImmutable ==
  [][\A i \in 1..Len(cache) :
       LET key == cache[i].key
       IN (IndexOf(cache', key) # 0 /\ cache'[IndexOf(cache', key)].value # cache[i].value) =>
             \E r \in Requests :
                pc[r] # "done" /\ pc'[r] = "done" /\ cacheKey'[r] = key]_vars

Waiting(r) == pc[r] \in {"dns", "probe"}

\* The n-th smtpVerify call of the request is running.
Probing(r, n) == pc[r] = "probe" /\ Len(probes[r]) = n

\* The longest sweep of a request: two made-up addresses and the real one,
\* each on every port of every host.
MaxProbes == 3 * 2 * 2

\* C21: with a network that always answers in the end, every running
\* smtpVerify call is resolved and every request that is waiting sends its
\* response; a request sends one response, when it completes, and while it
\* waits it has sent none.
C21_NothingPendsForever ==
  /\ \A r \in Requests : Waiting(r) ~> (pc[r] = "done" /\ res[r] # NoResponse)
  /\ \A r \in Requests, n \in 1..MaxProbes : Probing(r, n) ~> ~Probing(r, n)
  /\ [](\A r \in Requests : Waiting(r) => res[r] = NoResponse)

\* A request was answered after a sweep in which a probe failed.
C21_Witness ==
  \E r \in Requests :
    /\ Computed(r)
    /\ Len(probes[r]) >= 2
    /\ \E k \in 1..Len(probes[r]) : probes[r][k].outcome = "failed"

Pending(r) == {k \in 1..Len(probes[r]) : probes[r][k].outcome = "pending"}

\* C22: a request has at most one smtpVerify call unresolved, the last one
\* it made, and has one exactly while it waits for a probe: every earlier
\* call of the request was resolved before the next was made.  No call is
\* made before the MX lookup of the request has returned its records.
C22_OneProbeInFlight ==
  \A r \in Requests :
    /\ Pending(r) = IF pc[r] = "probe" THEN {Len(probes[r])} ELSE {}
    /\ pc[r] = "probe" =>
         /\ probes[r] # <<>>
         /\ connection[r].stage # "none" /\ ~connection[r].resolved
         /\ connection[r].to = probes[r][Len(probes[r])].to
    /\ pc[r] # "probe" => connection[r] = NoConnection
    /\ probes[r] # <<>> =>
         /\ pc[r] \in {"probe", "done"}
         /\ lookups[r] = 1 /\ mxRecords[r] # <<>>

\* Two requests wait for a probe at the same time, one of them for its
\* second or a later one.
C22_Witness ==
  \E r1, r2 \in Requests :
    /\ r1 # r2
    /\ pc[r1] = "probe" /\ pc[r2] = "probe"
    /\ Len(probes[r1]) >= 2

\* C23: a request that took the cache-hit branch is answered with the
\* stored result, never with a missing value.
C23_HitReturnsStored ==
  \A r \in Requests :
    (pc[r] = "done" /\ path[r] = "hit") =>
       /\ res[r].body # Undefined
       /\ IsVerificationResult(res[r].body)
       /\ res[r].body.email = email[r]

FlagInvariant(v) ==
  /\ v.domain_has_mx => v.valid_format
  /\ v.is_catch_all => v.domain_has_mx
  /\ v.smtp_valid => (v.domain_has_mx /\ ~v.is_catch_all)
  /\ (v.status = "valid") <=> v.smtp_valid
  /\ (v.warnings = <<>>) <=> (v.status = "valid" \/ ~v.valid_format)
  /\ Len(v.warnings) <= 1

\* The results a state holds: those sent in a response and those cached.
Returned == {res[r].body : r \in {q \in Requests : res[q].status = 200}} \ {Undefined}
Cached == {cache[i].value : i \in 1..Len(cache)}

\* C24: every result returned or cached has domain_has_mx only with
\* valid_format, is_catch_all only with domain_has_mx, smtp_valid only with
\* domain_has_mx and without is_catch_all, status valid exactly with
\* smtp_valid, and no warning exactly when it is valid or malformed, one
\* warning otherwise.
C24_FlagInvariant ==
  \A v \in Returned \cup Cached : FlagInvariant(v)

\* A catch-all verdict was returned and is the cached result of its address.
C24_Witness ==
  \E r \in Requests :
    /\ Computed(r)
    /\ res[r].body.is_catch_all
    /\ Len(res[r].body.warnings) = 1
    /\ IndexOf(cache, email[r]) # 0
    /\ Entry(email[r]).value = res[r].body

====
